---- MODULE Spec2Model ----
(***************************************************************************)
(* Catalog reconciliation and bulk-upsert pipeline of the amzsellmetrics   *)
(* backend: bulk product import (POST /products/bulk), SKU-mapping bulk    *)
(* create (POST /api/sku/bulk), the sku_master channel sync                *)
(* (POST /products/mapping/amazon-analyzer/sync), the missing-reference    *)
(* ingester (POST /products/mapping/amazon-analyzer/missing) and the       *)
(* DELETE handlers of products and SKU mappings.                           *)
(*                                                                         *)
(* Representation of values.  Text is a sequence of one-character strings. *)
(* A nullable SQL column or JS value is a sequence of length at most one:  *)
(* NULL is <<>> and a present value v is <<v>>.  A JS object is a record;  *)
(* a property the object does not carry is a field missing from the        *)
(* record's DOMAIN.  Timestamps (created_at, updated_at) are not modelled. *)
(***************************************************************************)
EXTENDS Integers, Sequences, FiniteSets, TLC

VARIABLES
    products,      \* table products: set of rows
    mpd,           \* table marketplace_product_data: set of rows
    sku_master,    \* table sku_master: set of rows
    nextId,        \* next server-generated row id
    imp,           \* handler state of POST /products/bulk
    imp2,          \* handler state of a second, concurrent bulk import
    bulk,          \* handler state of POST /api/sku/bulk
    sync,          \* handler state of POST /mapping/amazon-analyzer/sync
    peer,          \* handler state of a second, concurrent sync request
    ing,           \* handler state of POST /mapping/amazon-analyzer/missing
    del,           \* response of the last DELETE request
    hist           \* history of the run in progress, read only by the properties

vars == <<products, mpd, sku_master, nextId, imp, imp2, bulk, sync, peer, ing, del,
          hist>>

----------------------------------------------------------------------------
(* Bounds of the model *)

\* longest request list of a bulk product import
MaxBatch == 3
\* records per chunk; the handler uses 500, the model scales it down
BATCH_SIZE == 2
\* longest request list of a SKU-mapping bulk create
MaxMappings == 2
\* channel sync runs per behaviour
MaxSyncs == 2
\* longest request list of a missing-reference ingestion
MaxSkus == 2
\* missing-reference requests served one after another
MaxCalls == 2

----------------------------------------------------------------------------
(* Values *)

NULL == <<>>

Some(v) == <<v>>

\* SQL COALESCE(a, b)
COALESCE(a, b) == IF a # NULL THEN a ELSE b

UpperLetters == <<"A", "B", "C", "D", "E", "F", "G", "H", "I", "J", "K", "L", "M",
                  "N", "O", "P", "Q", "R", "S", "T", "U", "V", "W", "X", "Y", "Z">>

LowerLetters == <<"a", "b", "c", "d", "e", "f", "g", "h", "i", "j", "k", "l", "m",
                  "n", "o", "p", "q", "r", "s", "t", "u", "v", "w", "x", "y", "z">>

\* String.prototype.toLowerCase on one character
LowerChar(c) ==
    IF \E k \in 1..Len(UpperLetters) : UpperLetters[k] = c
    THEN LowerLetters[CHOOSE k \in 1..Len(UpperLetters) : UpperLetters[k] = c]
    ELSE c

\* the characters String.prototype.trim strips
IsSpace(c) == c \in {" ", "\t", "\n", "\r"}

toLowerCase(s) == [k \in 1..Len(s) |-> LowerChar(s[k])]

RECURSIVE trimStart(_)
trimStart(s) ==
    IF s # <<>> /\ IsSpace(Head(s)) THEN trimStart(Tail(s)) ELSE s

RECURSIVE trimEnd(_)
trimEnd(s) ==
    IF s # <<>> /\ IsSpace(s[Len(s)]) THEN trimEnd(SubSeq(s, 1, Len(s) - 1)) ELSE s

\* String.prototype.trim
trim(s) == trimEnd(trimStart(s))

\* JS truthiness of a text-valued property: absent, null and '' are falsy
Truthy(p, f) == f \in DOMAIN p /\ p[f] # NULL /\ p[f][1] # <<>>

\* p.f ?? null, and node-postgres' serialisation of undefined as NULL
OrNull(p, f) == IF f \in DOMAIN p THEN p[f] ELSE NULL

\* p.f || dflt for a text-valued property
OrElse(p, f, dflt) == IF Truthy(p, f) THEN p[f] ELSE Some(dflt)

Range(s) == {s[k] : k \in 1..Len(s)}

\* sequences over S of length at most n
SeqUpTo(S, n) == UNION {[1..k -> S] : k \in 0..n}

Min(a, b) == IF a < b THEN a ELSE b

----------------------------------------------------------------------------
(* Bulk product import: deduplication *)

\* const key = (p.name || '').toLowerCase().trim()
CanonKey(p) == trim(toLowerCase(IF Truthy(p, "name") THEN p.name[1] ELSE <<>>))

\* MapSet keeping every record, as a list would
MapSet_Append(m, key, p) == Append(m, [key |-> key, val |-> p])

\* MapSet with a repeated key keeping the record it already holds
MapSet_KeepFirst(m, key, p) ==
    IF \E k \in 1..Len(m) : m[k].key = key
    THEN m
    ELSE Append(m, [key |-> key, val |-> p])

\* Map.prototype.set: a new key is appended in insertion order, an existing
\* key keeps its position and takes the new value
MapSet(m, key, p) ==
    IF \E k \in 1..Len(m) : m[k].key = key
    THEN [k \in 1..Len(m) |-> IF m[k].key = key THEN [key |-> key, val |-> p] ELSE m[k]]
    ELSE Append(m, [key |-> key, val |-> p])

\* for (const p of products) { ... if (key) productMap.set(key, p) }
RECURSIVE BuildMap(_, _)
BuildMap(m, ps) ==
    IF ps = <<>> THEN m
    ELSE LET p == Head(ps)
             key == CanonKey(p)
         IN BuildMap(IF key # <<>> THEN MapSet(m, key, p) ELSE m, Tail(ps))

\* Dedup handing the map's values on in reverse insertion order
Dedup_Reversed(ps) ==
    LET m == BuildMap(<<>>, ps) IN [k \in 1..Len(m) |-> m[Len(m) + 1 - k].val]

\* Array.from(productMap.values())
Dedup(ps) == LET m == BuildMap(<<>>, ps) IN [k \in 1..Len(m) |-> m[k].val]

----------------------------------------------------------------------------
(* Bulk product import: one chunk's INSERT ... ON CONFLICT (name) DO UPDATE *)

csv == <<"c", "s", "v">>

\* the row proposed for insertion (EXCLUDED), built from the parameter arrays
ExcludedRow(p) ==
    [name        |-> OrNull(p, "name"),
     category    |-> OrNull(p, "category"),
     base_cost   |-> OrNull(p, "base_cost"),
     size        |-> OrNull(p, "size"),
     weight      |-> OrNull(p, "weight"),
     width       |-> OrNull(p, "width"),
     height      |-> OrNull(p, "height"),
     length      |-> OrNull(p, "length"),
     source      |-> OrElse(p, "source", csv),
     product_sku |-> OrNull(p, "product_sku"),
     parent      |-> OrNull(p, "parent")]

\* the row stored when no product has the name; the columns the statement
\* does not list take their defaults
InsertRow(e, id) ==
    [id |-> id,
     name |-> e.name, category |-> e.category, base_cost |-> e.base_cost,
     size |-> e.size, weight |-> e.weight, width |-> e.width,
     height |-> e.height, length |-> e.length, source |-> e.source,
     product_sku |-> e.product_sku, parent |-> e.parent,
     cost_profile_id |-> NULL,
     default_custom_shipping |-> NULL,
     default_fbm_source |-> NULL]

\* ConflictUpdate with the fallback columns assigned without COALESCE
ConflictUpdate_Overwrite(old, e) ==
    [old EXCEPT
       !.category    = e.category,
       !.base_cost   = e.base_cost,
       !.size        = e.size,
       !.weight      = e.weight,
       !.width       = e.width,
       !.height      = e.height,
       !.length      = e.length,
       !.product_sku = e.product_sku,
       !.parent      = e.parent]

\* ConflictUpdate with source among the columns it sets
ConflictUpdate_WithSource(old, e) ==
    [old EXCEPT
       !.category    = e.category,
       !.base_cost   = COALESCE(e.base_cost, old.base_cost),
       !.size        = COALESCE(e.size, old.size),
       !.weight      = COALESCE(e.weight, old.weight),
       !.width       = COALESCE(e.width, old.width),
       !.height      = COALESCE(e.height, old.height),
       !.length      = COALESCE(e.length, old.length),
       !.source      = e.source,
       !.product_sku = COALESCE(e.product_sku, old.product_sku),
       !.parent      = COALESCE(e.parent, old.parent)]

\* ON CONFLICT (name) DO UPDATE SET ...
ConflictUpdate(old, e) ==
    [old EXCEPT
       !.category    = e.category,
       !.base_cost   = COALESCE(e.base_cost, old.base_cost),
       !.size        = COALESCE(e.size, old.size),
       !.weight      = COALESCE(e.weight, old.weight),
       !.width       = COALESCE(e.width, old.width),
       !.height      = COALESCE(e.height, old.height),
       !.length      = COALESCE(e.length, old.length),
       !.product_sku = COALESCE(e.product_sku, old.product_sku),
       !.parent      = COALESCE(e.parent, old.parent)]

\* IsInsert reporting every returned row as inserted
IsInsert_Always(rows, e) == TRUE

\* RETURNING (xmax = 0) as is_insert: true for a row the statement inserted,
\* false for a row it updated under ON CONFLICT
IsInsert(rows, e) == ~ \E r \in rows : r.name = e.name

\* the statement applied to the store st = [rows, nextId, result], row by row
RECURSIVE UpsertRows(_, _)
UpsertRows(st, batch) ==
    IF batch = <<>> THEN st
    ELSE LET e == ExcludedRow(Head(batch))
             ins == IsInsert(st.rows, e)
             rows2 == IF ins
                      THEN st.rows \cup {InsertRow(e, st.nextId)}
                      ELSE {IF r.name = e.name THEN ConflictUpdate(r, e) ELSE r : r \in st.rows}
         IN UpsertRows([rows   |-> rows2,
                        nextId |-> IF ins THEN st.nextId + 1 ELSE st.nextId,
                        result |-> Append(st.result, [is_insert |-> ins])],
                       Tail(batch))

\* the statement raises an error instead when a row's name is NULL (NOT NULL
\* column) or when two of its rows have the same name (ON CONFLICT DO UPDATE
\* cannot affect a row a second time)
StatementValid(batch) ==
    /\ \A k \in 1..Len(batch) : ExcludedRow(batch[k]).name # NULL
    /\ \A k, l \in 1..Len(batch) :
          ExcludedRow(batch[k]).name = ExcludedRow(batch[l]).name => k = l

\* a slice that runs one record into the next chunk
Slice_Overlap(s, i) == SubSeq(s, i + 1, Min(i + BATCH_SIZE + 1, Len(s)))

\* uniqueProducts.slice(i, i + BATCH_SIZE)
Slice(s, i) == SubSeq(s, i + 1, Min(i + BATCH_SIZE, Len(s)))

\* result.filter(r => r.is_insert).length
CountInserts(result) == Cardinality({k \in 1..Len(result) : result[k].is_insert})

----------------------------------------------------------------------------
(* SKU-mapping bulk create: POST /api/sku/bulk *)

active == <<"a", "c", "t", "i", "v", "e">>

amazon == <<"a", "m", "a", "z", "o", "n">>

\* ids of the rows of table marketplaces (not written by these handlers)
AMZ == <<"m", "1">>
WMT == <<"m", "2">>
Marketplaces == {AMZ, WMT}

\* const { ..., status = 'active' } = mapping: the default applies to a
\* property that is absent, not to one that is null
StatusOf(mapping) == IF "status" \in DOMAIN mapping THEN mapping.status ELSE Some(active)

\* !v for the required properties of a mapping
Falsy(mapping, f) == ~ Truthy(mapping, f)

\* if (!product_id || !marketplace_id || !country_code || !sku)
MissingRequired(mapping) ==
    \/ ~ ("product_id" \in DOMAIN mapping /\ mapping.product_id # NULL)
    \/ Falsy(mapping, "marketplace_id")
    \/ Falsy(mapping, "country_code")
    \/ Falsy(mapping, "sku")

\* the foreign keys of marketplace_product_data
ForeignKeysHold(rows, mapping) ==
    /\ \E p \in rows : Some(p.id) = mapping.product_id
    /\ mapping.marketplace_id[1] \in Marketplaces

SameMapping(r, mapping) ==
    /\ r.product_id = mapping.product_id
    /\ r.marketplace_id = mapping.marketplace_id
    /\ r.country_code = mapping.country_code
    /\ r.sku = mapping.sku

\* ON CONFLICT (product_id, marketplace_id, country_code, sku) DO UPDATE SET
MappingUpdate(old, mapping) ==
    [old EXCEPT
       !.asin             = OrNull(mapping, "asin"),
       !.listing_price    = OrNull(mapping, "listing_price"),
       !.fulfillment_type = OrNull(mapping, "fulfillment_type"),
       !.status           = StatusOf(mapping)]

MappingInsert(mapping, id) ==
    [id |-> id,
     product_id |-> mapping.product_id,
     marketplace_id |-> mapping.marketplace_id,
     country_code |-> mapping.country_code,
     sku |-> mapping.sku,
     asin |-> OrNull(mapping, "asin"),
     listing_price |-> OrNull(mapping, "listing_price"),
     fulfillment_type |-> OrNull(mapping, "fulfillment_type"),
     status |-> StatusOf(mapping)]

\* the loop leaving at the first mapping that lacks a required field
RECURSIVE BulkMappings_AbortOnInvalid(_, _, _)
BulkMappings_AbortOnInvalid(st, prods, mappings) ==
    IF mappings = <<>> THEN st
    ELSE LET mapping == Head(mappings)
             exists == \E r \in st.rows : SameMapping(r, mapping)
         IN IF MissingRequired(mapping)
            THEN [st EXCEPT !.errors = Append(@, "missing")]
            ELSE BulkMappings_AbortOnInvalid(
                   IF ~ ForeignKeysHold(prods, mapping)
                   THEN [st EXCEPT !.errors = Append(@, "error")]
                   ELSE IF exists
                   THEN [st EXCEPT
                           !.rows = {IF SameMapping(r, mapping)
                                     THEN MappingUpdate(r, mapping) ELSE r : r \in st.rows},
                           !.updated = @ + 1]
                   ELSE [st EXCEPT
                           !.rows = @ \cup {MappingInsert(mapping, st.nextId)},
                           !.nextId = @ + 1,
                           !.created = @ + 1],
                   prods, Tail(mappings))

\* for (const mapping of mappings) { try { ... } catch { errors.push } }
\* over st = [rows, nextId, created, updated, errors]
RECURSIVE BulkMappings(_, _, _)
BulkMappings(st, prods, mappings) ==
    IF mappings = <<>> THEN st
    ELSE LET mapping == Head(mappings)
             exists == \E r \in st.rows : SameMapping(r, mapping)
             st2 ==
               IF MissingRequired(mapping)
               THEN [st EXCEPT !.errors = Append(@, "missing")]
               ELSE IF ~ ForeignKeysHold(prods, mapping)
               THEN [st EXCEPT !.errors = Append(@, "error")]
               ELSE IF exists
               THEN [st EXCEPT
                       !.rows = {IF SameMapping(r, mapping)
                                 THEN MappingUpdate(r, mapping) ELSE r : r \in st.rows},
                       !.updated = @ + 1]
               ELSE [st EXCEPT
                       !.rows = @ \cup {MappingInsert(mapping, st.nextId)},
                       !.nextId = @ + 1,
                       !.created = @ + 1]
         IN BulkMappings(st2, prods, Tail(mappings))

----------------------------------------------------------------------------
(* Channel sync: POST /mapping/amazon-analyzer/sync *)

\* FROM marketplace_product_data mpd JOIN products p ON mpd.product_id = p.id
Join(ms, ps) == {pr \in ms \X ps : pr[1].product_id = Some(pr[2].id)}

\* SQL equality of two nullable values: true only when neither is NULL
SqlEq(a, b) == a # NULL /\ b # NULL /\ a = b

\* WHERE sm.sku = mpd.sku AND sm.country_code = mpd.country_code
\*   AND sm.marketplace = 'amazon'
Matches(sm, ms, ps) ==
    {pr \in Join(ms, ps) :
        /\ SqlEq(sm.sku, pr[1].sku)
        /\ SqlEq(sm.country_code, pr[1].country_code)
        /\ SqlEq(sm.marketplace, Some(amazon))}

\* Refresh with parent taken from the product's parent alone
Refresh_ParentOnly(sm, pr) ==
    LET p == pr[2] IN
    [sm EXCEPT
       !.name            = p.name,
       !.parent          = p.parent,
       !.category        = p.category,
       !.cost            = p.base_cost,
       !.size            = p.size,
       !.custom_shipping = p.default_custom_shipping,
       !.fbm_source      = p.default_fbm_source]

\* UPDATE sku_master sm SET ... from the join row pr = <<mpd, p>>
Refresh(sm, pr) ==
    LET p == pr[2] IN
    [sm EXCEPT
       !.name            = p.name,
       !.parent          = COALESCE(p.parent, p.product_sku),
       !.category        = p.category,
       !.cost            = p.base_cost,
       !.size            = p.size,
       !.custom_shipping = p.default_custom_shipping,
       !.fbm_source      = p.default_fbm_source]

\* Phase A without its WHERE clause: every row is updated from some join row
PhaseAOutcomes_NoWhere(sms, ms, ps) ==
    IF Join(ms, ps) = {} THEN {sms}
    ELSE {{Refresh(sm, f[sm]) : sm \in sms} : f \in [sms -> Join(ms, ps)]}

\* Phase A passing over the rows that carry no iwasku
PhaseAOutcomes_SkipPlaceholders(sms, ms, ps) ==
    LET matched == {sm \in sms : Matches(sm, ms, ps) # {} /\ sm.iwasku # NULL}
        picks == {f \in [matched -> Join(ms, ps)] :
                     \A sm \in matched : f[sm] \in Matches(sm, ms, ps)}
    IN {{IF sm \in matched THEN Refresh(sm, f[sm]) ELSE sm : sm \in sms} : f \in picks}

\* The tables Phase A can leave: a target row that joins several rows is
\* updated from one of them, and which one is not specified
PhaseAOutcomes(sms, ms, ps) ==
    LET matched == {sm \in sms : Matches(sm, ms, ps) # {}}
        picks == {f \in [matched -> Join(ms, ps)] :
                     \A sm \in matched : f[sm] \in Matches(sm, ms, ps)}
    IN {{IF sm \in matched THEN Refresh(sm, f[sm]) ELSE sm : sm \in sms} : f \in picks}

\* Candidates without the WHERE clause on mpd.sku
Candidates_NoFilter(ms, ps) == Join(ms, ps)

\* SELECT ... WHERE mpd.sku IS NOT NULL AND mpd.sku != ''
Candidates(ms, ps) ==
    {pr \in Join(ms, ps) : pr[1].sku # NULL /\ pr[1].sku # Some(<<>>)}

\* the row Phase B proposes for the join row pr = <<mpd, p>>
SyncRow(pr, id) ==
    LET m == pr[1]
        p == pr[2]
    IN [id |-> id,
        sku |-> m.sku,
        marketplace |-> Some(amazon),
        country_code |-> m.country_code,
        asin |-> m.asin,
        iwasku |-> p.product_sku,
        name |-> p.name,
        parent |-> COALESCE(p.parent, p.product_sku),
        category |-> p.category,
        cost |-> p.base_cost,
        size |-> p.size,
        custom_shipping |-> p.default_custom_shipping,
        fbm_source |-> p.default_fbm_source,
        fulfillment |-> NULL]

\* the uniqueness key (sku, marketplace, country_code)
KeyOf(sm) == <<sm.sku, sm.marketplace, sm.country_code>>

\* ON CONFLICT (sku, marketplace, country_code) DO NOTHING: a proposed row is
\* dropped when the table, or an earlier row of the same statement, has its key
RECURSIVE InsertAll(_, _)
InsertAll(st, cands) ==
    IF cands = {} THEN st
    ELSE LET pr == CHOOSE x \in cands : TRUE
             row == SyncRow(pr, st.nextId)
             dup == \E sm \in st.rows : KeyOf(sm) = KeyOf(row)
         IN InsertAll(IF dup THEN st
                      ELSE [rows |-> st.rows \cup {row},
                            nextId |-> st.nextId + 1,
                            inserted |-> st.inserted + 1],
                      cands \ {pr})

\* Phase B without the ON CONFLICT clause and without the constraint: every
\* candidate becomes a row
PhaseBOutcomes_NoConflictClause(sms, id, ms, ps) ==
    LET cands == Candidates(ms, ps)
        n == Cardinality(cands)
        ids == CHOOSE f \in [cands -> id..(id + n - 1)] :
                   \A a, b \in cands : f[a] = f[b] => a = b
    IN {[rows |-> sms \cup {SyncRow(pr, ids[pr]) : pr \in cands},
         nextId |-> id + n,
         inserted |-> n]}

\* The outcomes of Phase B: of several join rows with one new key, the one
\* the statement reaches first is inserted, and the scan order is not specified
PhaseBOutcomes(sms, id, ms, ps) ==
    LET cands == Candidates(ms, ps)
        newKeys == {KeyOf(SyncRow(pr, 0)) : pr \in cands} \ {KeyOf(sm) : sm \in sms}
        picks == {f \in [newKeys -> cands] :
                     \A k \in newKeys : KeyOf(SyncRow(f[k], 0)) = k}
    IN {InsertAll([rows |-> sms, nextId |-> id, inserted |-> 0],
                  {f[k] : k \in newKeys}) : f \in picks}

\* SELECT COUNT(*), COUNT(cost), COUNT(size) FROM sku_master
\*   WHERE marketplace = 'amazon'
Stats(sms) ==
    LET ch == {sm \in sms : SqlEq(sm.marketplace, Some(amazon))}
    IN [total     |-> Cardinality(ch),
        with_cost |-> Cardinality({sm \in ch : sm.cost # NULL}),
        with_size |-> Cardinality({sm \in ch : sm.size # NULL})]

\* query() returns result.rows, which is [] for an UPDATE without RETURNING:
\* (updateResult as any).rowCount || updateResult.length || 0
UpdatedCount(updateResult) == IF Len(updateResult) # 0 THEN Len(updateResult) ELSE 0

----------------------------------------------------------------------------
(* Missing-reference ingester: POST /mapping/amazon-analyzer/missing *)

Unknown == <<"U", "n", "k", "n", "o", "w", "n">>

\* if (!sku || !marketplace)
EntryInvalid(skuInfo) == ~ Truthy(skuInfo, "sku") \/ ~ Truthy(skuInfo, "marketplace")

\* v || null for a text-valued property
OrElseNull(p, f) == IF Truthy(p, f) THEN p[f] ELSE NULL

\* the row the INSERT proposes: VALUES ($1, 'amazon', $2, $3, $4, $5, $6) with
\* [sku, marketplace, asin || null, name || sku, category || 'Unknown',
\*  fulfillment || null]; the columns not listed are NULL
PlaceholderRow(skuInfo, id) ==
    [id |-> id,
     sku |-> skuInfo.sku,
     marketplace |-> Some(amazon),
     country_code |-> skuInfo.marketplace,
     asin |-> OrElseNull(skuInfo, "asin"),
     iwasku |-> NULL,
     name |-> OrElse(skuInfo, "name", skuInfo.sku[1]),
     parent |-> NULL,
     category |-> OrElse(skuInfo, "category", Unknown),
     cost |-> NULL,
     size |-> NULL,
     custom_shipping |-> NULL,
     fbm_source |-> NULL,
     fulfillment |-> OrElseNull(skuInfo, "fulfillment")]

\* the insert as an upsert: ON CONFLICT ... DO UPDATE SET the entry's columns
InsertPlaceholder_Upsert(st, skuInfo) ==
    LET row == PlaceholderRow(skuInfo, st.nextId)
    IN IF \E sm \in st.rows : KeyOf(sm) = KeyOf(row)
       THEN [st EXCEPT
               !.rows = {IF KeyOf(sm) = KeyOf(row)
                         THEN [sm EXCEPT !.asin = row.asin, !.name = row.name,
                                         !.category = row.category,
                                         !.fulfillment = row.fulfillment]
                         ELSE sm : sm \in st.rows},
               !.returned = <<>>]
       ELSE [rows |-> st.rows \cup {row},
             nextId |-> st.nextId + 1,
             returned |-> <<[id |-> row.id]>>]

\* the insert without the ON CONFLICT clause and without the constraint
InsertPlaceholder_NoConflictCheck(st, skuInfo) ==
    LET row == PlaceholderRow(skuInfo, st.nextId)
    IN [rows |-> st.rows \cup {row},
        nextId |-> st.nextId + 1,
        returned |-> <<[id |-> row.id]>>]

\* ON CONFLICT (sku, marketplace, country_code) DO NOTHING RETURNING id, over
\* st = [rows, nextId, returned]
InsertPlaceholder(st, skuInfo) ==
    LET row == PlaceholderRow(skuInfo, st.nextId)
    IN IF \E sm \in st.rows : KeyOf(sm) = KeyOf(row)
       THEN [st EXCEPT !.returned = <<>>]
       ELSE [rows |-> st.rows \cup {row},
             nextId |-> st.nextId + 1,
             returned |-> <<[id |-> row.id]>>]

----------------------------------------------------------------------------
(* Stores and request bodies the model draws from *)

T(c) == <<c>>

cat1 == <<"c", "1">>
cat2 == <<"c", "2">>
PX1 == <<"P", "X", "1">>
PP == <<"P", "P">>
X1 == <<"X", "1">>
X2 == <<"X", "2">>
M1 == <<"M", "1">>
US == <<"U", "S">>

\* a product with every column set, and one with only name and product_sku
SeedProducts ==
    {[id |-> 1, name |-> Some(T("a")), category |-> Some(cat1),
      base_cost |-> Some(10), size |-> Some(11), weight |-> Some(12),
      width |-> Some(13), height |-> Some(14), length |-> Some(15),
      source |-> Some(csv), product_sku |-> Some(PP), parent |-> Some(PP),
      cost_profile_id |-> NULL, default_custom_shipping |-> Some(16),
      default_fbm_source |-> Some(US)],
     [id |-> 2, name |-> Some(T("b")), category |-> NULL,
      base_cost |-> NULL, size |-> NULL, weight |-> NULL,
      width |-> NULL, height |-> NULL, length |-> NULL,
      source |-> Some(csv), product_sku |-> Some(PX1), parent |-> NULL,
      cost_profile_id |-> NULL, default_custom_shipping |-> NULL,
      default_fbm_source |-> NULL]}

\* request records of POST /products/bulk
ImportRecords ==
    {[name |-> Some(T("a"))],
     [name |-> Some(T("a")), category |-> Some(cat2), base_cost |-> Some(5),
      size |-> NULL, parent |-> Some(PX1)],
     [name |-> Some(T("A")), category |-> Some(cat2), base_cost |-> Some(5),
      size |-> Some(5), weight |-> Some(5), width |-> Some(5),
      height |-> Some(5), length |-> Some(5), source |-> Some(amazon),
      product_sku |-> Some(PX1), parent |-> Some(PX1)],
     [name |-> Some(<<"a", " ">>), category |-> NULL, base_cost |-> Some(5)],
     [name |-> Some(T("b")), category |-> Some(cat2), base_cost |-> NULL],
     [name |-> Some(T("c"))],
     [name |-> Some(T(" ")), base_cost |-> Some(5)],
     [category |-> Some(cat2)]}

SeedMappings ==
    {[id |-> 11, product_id |-> Some(1), marketplace_id |-> Some(AMZ),
      country_code |-> Some(US), sku |-> Some(X1), asin |-> Some(X1),
      listing_price |-> Some(20), fulfillment_type |-> Some(T("A")),
      status |-> Some(T("i"))],
     [id |-> 12, product_id |-> Some(2), marketplace_id |-> Some(AMZ),
      country_code |-> Some(US), sku |-> Some(X1), asin |-> NULL,
      listing_price |-> NULL, fulfillment_type |-> NULL,
      status |-> Some(active)],
     [id |-> 13, product_id |-> Some(1), marketplace_id |-> Some(AMZ),
      country_code |-> Some(US), sku |-> Some(X2), asin |-> NULL,
      listing_price |-> NULL, fulfillment_type |-> NULL,
      status |-> Some(active)],
     [id |-> 14, product_id |-> Some(1), marketplace_id |-> Some(AMZ),
      country_code |-> Some(US), sku |-> Some(<<>>), asin |-> NULL,
      listing_price |-> NULL, fulfillment_type |-> NULL,
      status |-> Some(active)],
     [id |-> 15, product_id |-> Some(2), marketplace_id |-> Some(AMZ),
      country_code |-> Some(US), sku |-> NULL, asin |-> NULL,
      listing_price |-> NULL, fulfillment_type |-> NULL,
      status |-> Some(active)]}

\* a row whose derived columns are out of date, and a placeholder
\* mappings of the other marketplace: one with a sku no row has, one with
\* the sku of a stored row
OtherChannelMappings ==
    {[id |-> 16, product_id |-> Some(2), marketplace_id |-> Some(WMT),
      country_code |-> Some(US), sku |-> Some(X2), asin |-> NULL,
      listing_price |-> NULL, fulfillment_type |-> NULL,
      status |-> Some(active)],
     [id |-> 17, product_id |-> Some(2), marketplace_id |-> Some(WMT),
      country_code |-> Some(US), sku |-> Some(X1), asin |-> NULL,
      listing_price |-> NULL, fulfillment_type |-> NULL,
      status |-> Some(active)]}

SeedSkuMaster ==
    {[id |-> 21, sku |-> Some(X1), marketplace |-> Some(amazon),
      country_code |-> Some(US), asin |-> Some(X1), iwasku |-> NULL,
      name |-> Some(X1), parent |-> NULL, category |-> Some(cat2),
      cost |-> NULL, size |-> Some(5), custom_shipping |-> NULL,
      fbm_source |-> NULL, fulfillment |-> Some(T("A"))],
     [id |-> 22, sku |-> Some(M1), marketplace |-> Some(amazon),
      country_code |-> Some(US), asin |-> NULL, iwasku |-> NULL,
      name |-> Some(M1), parent |-> NULL, category |-> Some(cat1),
      cost |-> NULL, size |-> NULL, custom_shipping |-> NULL,
      fbm_source |-> NULL, fulfillment |-> NULL]}

\* request records of POST /api/sku/bulk
MappingRecords ==
    {[product_id |-> Some(1), marketplace_id |-> Some(AMZ),
      country_code |-> Some(US), sku |-> Some(X1)],
     [product_id |-> Some(2), marketplace_id |-> Some(AMZ),
      country_code |-> Some(US), sku |-> Some(X2), asin |-> Some(X2),
      status |-> NULL],
     [product_id |-> Some(1), marketplace_id |-> Some(AMZ),
      country_code |-> Some(US)],
     [product_id |-> Some(9), marketplace_id |-> Some(WMT),
      country_code |-> Some(US), sku |-> Some(X2)]}

\* request entries of POST /mapping/amazon-analyzer/missing
IngestRecords ==
    {[sku |-> Some(M1), marketplace |-> Some(US)],
     [sku |-> Some(M1), marketplace |-> Some(US), name |-> Some(X2),
      category |-> Some(cat2), asin |-> Some(X2), fulfillment |-> Some(T("B"))],
     [sku |-> Some(X1), marketplace |-> Some(US), name |-> Some(T("n"))],
     [marketplace |-> Some(US), name |-> Some(T("n"))],
     [sku |-> Some(X2), marketplace |-> NULL]}

\* the entries with sku and marketplace that carry no asin
ReingestRecords == {e \in IngestRecords : ~ EntryInvalid(e) /\ "asin" \notin DOMAIN e}

----------------------------------------------------------------------------
(* Handlers *)

NoResponse == [status |-> 0]

ImpIdle ==
    [pc |-> "idle", body |-> <<>>, uniqueProducts |-> <<>>, i |-> 0,
     totalAdded |-> 0, totalUpdated |-> 0, result |-> <<>>, res |-> NoResponse]

BulkIdle == [pc |-> "idle", body |-> <<>>, res |-> NoResponse]

SyncIdle ==
    [pc |-> "idle", runs |-> 0, updateResult |-> <<>>, inserted |-> 0,
     res |-> NoResponse]

IngIdle ==
    [pc |-> "idle", body |-> <<>>, k |-> 0, added |-> 0, skipped |-> 0,
     res |-> NoResponse]

\* clean:  no other handler has written since the sync run in progress began
\* last:   sku_master as the last completed sync run left it, while the
\*         tables have not been written since
\* before: the value of last when the sync run in progress began
\* p0:     products when the bulk import in progress began
\* sm0:    sku_master when the sync run in progress began
\* ingested: the rows the ingester has inserted, as it inserted them
HistInit ==
    [clean |-> FALSE, last |-> NULL, before |-> NULL, p0 |-> {}, sm0 |-> {},
     ingested |-> {}, calls |-> <<>>, p1 |-> NULL, retries |-> 0,
     raced |-> FALSE, q0 |-> {}]

\* another handler's write
Touched(h) == [h EXCEPT !.clean = FALSE, !.last = NULL, !.before = NULL]

InitTables(ps, ms, sms) ==
    /\ products = ps
    /\ mpd = ms
    /\ sku_master = sms
    /\ nextId = 31
    /\ imp = ImpIdle
    /\ imp2 = ImpIdle
    /\ bulk = BulkIdle
    /\ sync = SyncIdle
    /\ peer = SyncIdle
    /\ ing = IngIdle
    /\ del = NoResponse
    /\ hist = HistInit

\* POST /products/bulk, up to the chunk loop
ImportRequest(ps) ==
    /\ imp.pc = "idle"
    /\ imp' = IF Len(ps) = 0
              THEN [imp EXCEPT !.pc = "done", !.body = ps,
                      !.res = [status |-> 200, success |-> TRUE,
                               data |-> [added |-> 0, updated |-> 0]]]
              ELSE [imp EXCEPT !.pc = "loop", !.body = ps,
                      !.uniqueProducts = Dedup(ps), !.i = 0,
                      !.totalAdded = 0, !.totalUpdated = 0]
    /\ hist' = [hist EXCEPT !.p0 = products]
    /\ UNCHANGED <<products, mpd, sku_master, nextId, bulk, sync, ing, peer, del, imp2>>

\* ImportChunk counting every returned row as updated
ImportChunk_CountAll ==
    /\ imp.pc = "loop"
    /\ imp.i < Len(imp.uniqueProducts)
    /\ LET batch == Slice(imp.uniqueProducts, imp.i)
           st == UpsertRows([rows |-> products, nextId |-> nextId, result |-> <<>>], batch)
           inserted == CountInserts(st.result)
       IN /\ StatementValid(batch)
          /\ products' = st.rows
          /\ nextId' = st.nextId
          /\ imp' = [imp EXCEPT !.result = st.result,
                       !.totalAdded = @ + inserted,
                       !.totalUpdated = @ + Len(st.result),
                       !.i = @ + BATCH_SIZE]
    /\ hist' = Touched(hist)
    /\ UNCHANGED <<mpd, sku_master, bulk, sync, ing, peer, del, imp2>>

\* one iteration of the chunk loop whose statement succeeds
ImportChunk ==
    /\ imp.pc = "loop"
    /\ imp.i < Len(imp.uniqueProducts)
    /\ LET batch == Slice(imp.uniqueProducts, imp.i)
           st == UpsertRows([rows |-> products, nextId |-> nextId, result |-> <<>>], batch)
           inserted == CountInserts(st.result)
       IN /\ StatementValid(batch)
          /\ products' = st.rows
          /\ nextId' = st.nextId
          /\ imp' = [imp EXCEPT !.result = st.result,
                       !.totalAdded = @ + inserted,
                       !.totalUpdated = @ + (Len(st.result) - inserted),
                       !.i = @ + BATCH_SIZE]
    /\ hist' = Touched(hist)
    /\ UNCHANGED <<mpd, sku_master, bulk, sync, ing, peer, del, imp2>>

\* ImportChunkFail with a statement that fails after applying its first row
ImportChunkFail_Partial ==
    /\ imp.pc = "loop"
    /\ imp.i < Len(imp.uniqueProducts)
    /\ LET batch == SubSeq(imp.uniqueProducts, imp.i + 1, imp.i + 1)
           st == UpsertRows([rows |-> products, nextId |-> nextId, result |-> <<>>], batch)
       IN /\ products' = st.rows
          /\ nextId' = st.nextId
    /\ imp' = [imp EXCEPT !.pc = "done",
                 !.res = [status |-> 500, success |-> FALSE, error |-> "message"]]
    /\ UNCHANGED <<mpd, sku_master, bulk, sync, hist, ing, peer, del, imp2>>

\* ImportChunkFail answering with the totals next to the error
ImportChunkFail_WithCounts ==
    /\ imp.pc = "loop"
    /\ imp.i < Len(imp.uniqueProducts)
    /\ imp' = [imp EXCEPT !.pc = "done",
                 !.res = [status |-> 500, success |-> FALSE, error |-> "message",
                          data |-> [added |-> imp.totalAdded,
                                    updated |-> imp.totalUpdated]]]
    /\ UNCHANGED <<products, mpd, sku_master, nextId, bulk, sync, hist, ing, peer, del, imp2>>

\* one iteration whose statement throws (storage failure or statement error):
\* the statement changes nothing and the catch block answers
ImportChunkFail ==
    /\ imp.pc = "loop"
    /\ imp.i < Len(imp.uniqueProducts)
    /\ imp' = [imp EXCEPT !.pc = "done",
                 !.res = [status |-> 500, success |-> FALSE, error |-> "message"]]
    /\ UNCHANGED <<products, mpd, sku_master, nextId, bulk, sync, hist, ing, peer, del, imp2>>

\* the loop has ended: res.status(201).json(...)
ImportRespond ==
    /\ imp.pc = "loop"
    /\ imp.i >= Len(imp.uniqueProducts)
    /\ imp' = [imp EXCEPT !.pc = "done",
                 !.res = [status |-> 201, success |-> TRUE,
                          data |-> [added |-> imp.totalAdded,
                                    updated |-> imp.totalUpdated]]]
    /\ UNCHANGED <<products, mpd, sku_master, nextId, bulk, sync, hist, ing, peer, del, imp2>>

\* the caller sends the same request again, once the earlier one is answered
ImportAgain ==
    /\ imp.pc = "done"
    /\ hist.retries + 1 < MaxCalls
    /\ imp' = IF Len(imp.body) = 0
              THEN [ImpIdle EXCEPT !.pc = "done", !.body = imp.body,
                      !.res = [status |-> 200, success |-> TRUE,
                               data |-> [added |-> 0, updated |-> 0]]]
              ELSE [ImpIdle EXCEPT !.pc = "loop", !.body = imp.body,
                      !.uniqueProducts = Dedup(imp.body)]
    /\ hist' = [hist EXCEPT !.p0 = products,
                  !.p1 = IF imp.res.status \in {200, 201} THEN Some(products) ELSE NULL,
                  !.retries = @ + 1]
    /\ UNCHANGED <<products, mpd, sku_master, nextId, bulk, sync, ing, peer, del, imp2>>

\* the steps of a second bulk import running at the same time; a statement
\* holds the lock of every row it wrote until it ends, so that two statements
\* that write one row apply to it one after the other
PeerImportRequest(ps) ==
    /\ imp2.pc = "idle"
    /\ imp2' = IF Len(ps) = 0
               THEN [imp2 EXCEPT !.pc = "done", !.body = ps,
                       !.res = [status |-> 200, success |-> TRUE,
                                data |-> [added |-> 0, updated |-> 0]]]
               ELSE [imp2 EXCEPT !.pc = "loop", !.body = ps,
                       !.uniqueProducts = Dedup(ps), !.i = 0,
                       !.totalAdded = 0, !.totalUpdated = 0]
    /\ hist' = [hist EXCEPT !.q0 = products]
    /\ UNCHANGED <<products, mpd, sku_master, nextId, imp, bulk, sync, ing, peer, del>>

\* the peer's statement computed from the rows its request found on arrival
PeerImportChunk_Stale ==
    /\ imp2.pc = "loop"
    /\ imp2.i < Len(imp2.uniqueProducts)
    /\ LET batch == Slice(imp2.uniqueProducts, imp2.i)
           st == UpsertRows([rows |-> hist.q0, nextId |-> nextId, result |-> <<>>], batch)
           names == {ExcludedRow(batch[k]).name : k \in 1..Len(batch)}
           inserted == CountInserts(st.result)
       IN /\ StatementValid(batch)
          /\ products' = {r \in products : r.name \notin names}
                            \cup {r \in st.rows : r.name \in names}
          /\ nextId' = st.nextId
          /\ imp2' = [imp2 EXCEPT !.result = st.result,
                        !.totalAdded = @ + inserted,
                        !.totalUpdated = @ + (Len(st.result) - inserted),
                        !.i = @ + BATCH_SIZE]
    /\ hist' = Touched(hist)
    /\ UNCHANGED <<mpd, sku_master, imp, bulk, sync, ing, peer, del>>

PeerImportChunk ==
    /\ imp2.pc = "loop"
    /\ imp2.i < Len(imp2.uniqueProducts)
    /\ LET batch == Slice(imp2.uniqueProducts, imp2.i)
           st == UpsertRows([rows |-> products, nextId |-> nextId, result |-> <<>>], batch)
           inserted == CountInserts(st.result)
       IN /\ StatementValid(batch)
          /\ products' = st.rows
          /\ nextId' = st.nextId
          /\ imp2' = [imp2 EXCEPT !.result = st.result,
                        !.totalAdded = @ + inserted,
                        !.totalUpdated = @ + (Len(st.result) - inserted),
                        !.i = @ + BATCH_SIZE]
    /\ hist' = Touched(hist)
    /\ UNCHANGED <<mpd, sku_master, imp, bulk, sync, ing, peer, del>>

PeerImportChunkFail ==
    /\ imp2.pc = "loop"
    /\ imp2.i < Len(imp2.uniqueProducts)
    /\ imp2' = [imp2 EXCEPT !.pc = "done",
                  !.res = [status |-> 500, success |-> FALSE, error |-> "message"]]
    /\ UNCHANGED <<products, mpd, sku_master, nextId, imp, bulk, sync, hist, ing, peer, del>>

PeerImportRespond ==
    /\ imp2.pc = "loop"
    /\ imp2.i >= Len(imp2.uniqueProducts)
    /\ imp2' = [imp2 EXCEPT !.pc = "done",
                  !.res = [status |-> 201, success |-> TRUE,
                           data |-> [added |-> imp2.totalAdded,
                                     updated |-> imp2.totalUpdated]]]
    /\ UNCHANGED <<products, mpd, sku_master, nextId, imp, bulk, sync, hist, ing, peer, del>>

\* POST /api/sku/bulk
SkuBulk(ms) ==
    /\ bulk.pc = "idle"
    /\ IF Len(ms) = 0
       THEN /\ bulk' = [pc |-> "done", body |-> ms,
                        res |-> [status |-> 400, error |-> "mappings array is required"]]
            /\ UNCHANGED <<mpd, nextId, hist>>
       ELSE LET st == BulkMappings([rows |-> mpd, nextId |-> nextId, created |-> 0,
                                    updated |-> 0, errors |-> <<>>], products, ms)
            IN /\ mpd' = st.rows
               /\ nextId' = st.nextId
               /\ bulk' = [pc |-> "done", body |-> ms,
                           res |-> [status |-> 200, created |-> st.created,
                                    updated |-> st.updated, errors |-> st.errors]]
               /\ hist' = IF st.created + st.updated > 0 THEN Touched(hist) ELSE hist
    /\ UNCHANGED <<products, sku_master, imp, sync, ing, peer, del, imp2>>

\* the sync handler's first statement: Phase A
SyncPhaseA ==
    /\ sync.pc \in {"idle", "done"}
    /\ sync.runs < MaxSyncs
    /\ sku_master' \in PhaseAOutcomes(sku_master, mpd, products)
    /\ sync' = [sync EXCEPT !.pc = "phaseB", !.runs = @ + 1,
                  !.updateResult = <<>>, !.inserted = 0, !.res = NoResponse]
    /\ hist' = [hist EXCEPT !.clean = TRUE, !.before = hist.last,
                  !.sm0 = sku_master]
    /\ UNCHANGED <<products, mpd, nextId, imp, bulk, ing, peer, del, imp2>>

\* Phase B issued as the first statement of a run, before the refresh
SyncPhaseB_First ==
    /\ sync.pc \in {"idle", "done"}
    /\ sync.runs < MaxSyncs
    /\ \E st \in PhaseBOutcomes(sku_master, nextId, mpd, products) :
          /\ sku_master' = st.rows
          /\ nextId' = st.nextId
          /\ sync' = [sync EXCEPT !.pc = "stats", !.runs = @ + 1,
                        !.inserted = st.inserted, !.res = NoResponse]
    /\ UNCHANGED <<products, mpd, imp, bulk, hist, ing, peer, del, imp2>>

\* Phase B reporting the rows it proposed instead of the rows it returned
SyncPhaseB_CountCandidates ==
    /\ sync.pc = "phaseB"
    /\ \E st \in PhaseBOutcomes(sku_master, nextId, mpd, products) :
          /\ sku_master' = st.rows
          /\ nextId' = st.nextId
          /\ sync' = [sync EXCEPT !.pc = "stats",
                        !.inserted = Cardinality(Candidates(mpd, products))]
    /\ UNCHANGED <<products, mpd, imp, bulk, hist, ing, peer, del, imp2>>

\* the second statement: Phase B
SyncPhaseB ==
    /\ sync.pc = "phaseB"
    /\ \E st \in PhaseBOutcomes(sku_master, nextId, mpd, products) :
          /\ sku_master' = st.rows
          /\ nextId' = st.nextId
          /\ sync' = [sync EXCEPT !.pc = "stats", !.inserted = st.inserted]
    /\ UNCHANGED <<products, mpd, imp, bulk, hist, ing, peer, del, imp2>>

\* the statistics query and the response
SyncStats ==
    /\ sync.pc = "stats"
    /\ LET stats == Stats(sku_master)
       IN sync' = [sync EXCEPT !.pc = "done",
                     !.res = [status |-> 200, success |-> TRUE,
                              data |-> [updated |-> UpdatedCount(sync.updateResult),
                                        inserted |-> sync.inserted,
                                        total |-> stats.total,
                                        withCost |-> stats.with_cost,
                                        withSize |-> stats.with_size]]]
    /\ hist' = [hist EXCEPT !.last = IF hist.clean THEN Some(sku_master) ELSE NULL]
    /\ UNCHANGED <<products, mpd, sku_master, nextId, imp, bulk, ing, peer, del, imp2>>

\* the statement about to run throws: the catch block answers
SyncFail ==
    /\ \/ sync.pc \in {"idle", "done"} /\ sync.runs < MaxSyncs
       \/ sync.pc \in {"phaseB", "stats"}
    /\ sync' = [sync EXCEPT !.pc = "done",
                  !.runs = IF sync.pc \in {"idle", "done"} THEN @ + 1 ELSE @,
                  !.res = [status |-> 500, success |-> FALSE, error |-> "message"]]
    /\ hist' = [hist EXCEPT !.last = NULL, !.before = NULL]
    /\ UNCHANGED <<products, mpd, sku_master, nextId, imp, bulk, ing, peer, del, imp2>>

\* POST /mapping/amazon-analyzer/missing, up to the loop
IngestRequest(skus) ==
    /\ ing.pc = "idle"
    /\ ing' = [ing EXCEPT !.pc = "loop", !.body = skus, !.k = 0,
                 !.added = 0, !.skipped = 0]
    /\ UNCHANGED <<products, mpd, sku_master, nextId, imp, bulk, sync, peer, del, hist, imp2>>

\* the loop counting every valid entry as added
IngestEntry_CountAll ==
    /\ ing.pc = "loop"
    /\ ing.k < Len(ing.body)
    /\ LET skuInfo == ing.body[ing.k + 1]
       IN IF EntryInvalid(skuInfo)
          THEN /\ ing' = [ing EXCEPT !.k = @ + 1, !.skipped = @ + 1]
               /\ UNCHANGED <<sku_master, nextId, hist>>
          ELSE LET st == InsertPlaceholder([rows |-> sku_master, nextId |-> nextId,
                                            returned |-> <<>>], skuInfo)
               IN /\ sku_master' = st.rows
                  /\ nextId' = st.nextId
                  /\ ing' = [ing EXCEPT !.k = @ + 1, !.added = @ + 1]
                  /\ hist' = IF Len(st.returned) > 0
                             THEN [Touched(hist) EXCEPT
                                     !.ingested = @ \cup (st.rows \ sku_master),
                                     !.raced = @ \/ sync.pc = "phaseB"]
                             ELSE hist
    /\ UNCHANGED <<products, mpd, imp, bulk, sync, peer, del, imp2>>

\* one iteration of the loop: an entry without sku or marketplace is skipped,
\* any other is inserted unless its key is taken
IngestEntry ==
    /\ ing.pc = "loop"
    /\ ing.k < Len(ing.body)
    /\ LET skuInfo == ing.body[ing.k + 1]
       IN IF EntryInvalid(skuInfo)
          THEN /\ ing' = [ing EXCEPT !.k = @ + 1, !.skipped = @ + 1]
               /\ UNCHANGED <<sku_master, nextId, hist>>
          ELSE LET st == InsertPlaceholder([rows |-> sku_master, nextId |-> nextId,
                                            returned |-> <<>>], skuInfo)
               IN /\ sku_master' = st.rows
                  /\ nextId' = st.nextId
                  /\ ing' = IF Len(st.returned) > 0
                            THEN [ing EXCEPT !.k = @ + 1, !.added = @ + 1]
                            ELSE [ing EXCEPT !.k = @ + 1, !.skipped = @ + 1]
                  /\ hist' = IF Len(st.returned) > 0
                             THEN [Touched(hist) EXCEPT
                                     !.ingested = @ \cup (st.rows \ sku_master),
                                     !.raced = @ \/ sync.pc = "phaseB"]
                             ELSE hist
    /\ UNCHANGED <<products, mpd, imp, bulk, sync, peer, del, imp2>>

\* the entry's INSERT throws: the catch block answers
IngestFail ==
    /\ ing.pc = "loop"
    /\ ing.k < Len(ing.body)
    /\ ~ EntryInvalid(ing.body[ing.k + 1])
    /\ ing' = [ing EXCEPT !.pc = "done",
                 !.res = [status |-> 500, success |-> FALSE, error |-> "message"]]
    /\ hist' = [hist EXCEPT !.calls = Append(@, [body |-> ing.body, res |-> ing'.res])]
    /\ UNCHANGED <<products, mpd, sku_master, nextId, imp, bulk, sync, peer, del, imp2>>

\* the loop has ended: res.json({ success, data: { added, skipped, total } })
IngestRespond ==
    /\ ing.pc = "loop"
    /\ ing.k >= Len(ing.body)
    /\ ing' = [ing EXCEPT !.pc = "done",
                 !.res = [status |-> 200, success |-> TRUE,
                          data |-> [added |-> ing.added, skipped |-> ing.skipped,
                                    total |-> Len(ing.body)]]]
    /\ hist' = [hist EXCEPT !.calls = Append(@, [body |-> ing.body, res |-> ing'.res])]
    /\ UNCHANGED <<products, mpd, sku_master, nextId, imp, bulk, sync, peer, del, imp2>>

\* the client sends the request again, once the earlier one is answered
IngestAgain ==
    /\ ing.pc = "done"
    /\ Len(hist.calls) < MaxCalls
    /\ ing' = [IngIdle EXCEPT !.pc = "loop", !.body = ing.body]
    /\ UNCHANGED <<products, mpd, sku_master, nextId, imp, bulk, sync, peer, del, hist, imp2>>

\* DELETE /api/sku/:id
DeleteMapping(id) ==
    /\ IF \E m \in mpd : m.id = id
       THEN /\ mpd' = {m \in mpd : m.id # id}
            /\ del' = [status |-> 200, success |-> TRUE]
            /\ hist' = Touched(hist)
       ELSE /\ del' = [status |-> 404, error |-> "SKU mapping not found"]
            /\ UNCHANGED <<mpd, hist>>
    /\ UNCHANGED <<products, sku_master, nextId, imp, bulk, sync, peer, ing, imp2>>

\* DELETE /products/:id; marketplace_product_data.product_id is declared
\* REFERENCES products(id) ON DELETE CASCADE
DeleteProduct(id) ==
    /\ IF \E p \in products : p.id = id
       THEN /\ products' = {p \in products : p.id # id}
            /\ mpd' = {m \in mpd : m.product_id # Some(id)}
            /\ del' = [status |-> 200, success |-> TRUE]
            /\ hist' = Touched(hist)
       ELSE /\ del' = [status |-> 404, success |-> FALSE]
            /\ UNCHANGED <<products, mpd, hist>>
    /\ UNCHANGED <<sku_master, nextId, imp, bulk, sync, ing, peer, imp2>>

\* the statements of a second sync request running at the same time
PeerPhaseA ==
    /\ peer.pc \in {"idle", "done"}
    /\ peer.runs < MaxSyncs
    /\ sku_master' \in PhaseAOutcomes(sku_master, mpd, products)
    /\ peer' = [peer EXCEPT !.pc = "phaseB", !.runs = @ + 1,
                  !.updateResult = <<>>, !.inserted = 0, !.res = NoResponse]
    /\ hist' = Touched(hist)
    /\ UNCHANGED <<products, mpd, nextId, imp, bulk, sync, ing, del, imp2>>

PeerPhaseB ==
    /\ peer.pc = "phaseB"
    /\ \E st \in PhaseBOutcomes(sku_master, nextId, mpd, products) :
          /\ sku_master' = st.rows
          /\ nextId' = st.nextId
          /\ peer' = [peer EXCEPT !.pc = "stats", !.inserted = st.inserted]
    /\ hist' = Touched(hist)
    /\ UNCHANGED <<products, mpd, imp, bulk, sync, ing, del, imp2>>

PeerStats ==
    /\ peer.pc = "stats"
    /\ LET stats == Stats(sku_master)
       IN peer' = [peer EXCEPT !.pc = "done",
                     !.res = [status |-> 200, success |-> TRUE,
                              data |-> [updated |-> UpdatedCount(peer.updateResult),
                                        inserted |-> peer.inserted,
                                        total |-> stats.total,
                                        withCost |-> stats.with_cost,
                                        withSize |-> stats.with_size]]]
    /\ UNCHANGED <<products, mpd, sku_master, nextId, imp, bulk, sync, ing, del, hist, imp2>>

----------------------------------------------------------------------------
(* Specifications *)

\* bulk product import against a store holding some of the seed products
InitImport ==
    \E ps \in SUBSET SeedProducts : InitTables(ps, {}, {})

NextImport ==
    \/ \E ps \in SeqUpTo(ImportRecords, MaxBatch) : ImportRequest(ps)
    \/ ImportChunk
    \/ ImportChunkFail
    \/ ImportRespond

SpecImport == InitImport /\ [][NextImport]_vars

\* a bulk import sent again by its caller
RetryRecords ==
    {p \in ImportRecords :
        \/ "base_cost" \notin DOMAIN p
        \/ "parent" \in DOMAIN p
        \/ OrNull(p, "name") = Some(T("b"))}

NextRetry ==
    \/ \E ps \in SeqUpTo(RetryRecords, MaxBatch) : ImportRequest(ps)
    \/ ImportChunk
    \/ ImportChunkFail
    \/ ImportRespond
    \/ ImportAgain

SpecRetry == InitImport /\ [][NextRetry]_vars

\* sync runs against a store that holds mappings of two marketplaces
InitChannel ==
    \E ms \in SUBSET ({m \in SeedMappings : m.id = 11} \cup OtherChannelMappings) :
        \E sms \in SUBSET SeedSkuMaster : InitTables(SeedProducts, ms, sms)

NextChannel ==
    \/ SyncPhaseA
    \/ SyncPhaseB
    \/ SyncStats
    \/ SyncFail

SpecChannel == InitChannel /\ [][NextChannel]_vars

\* a bulk import, an ingestion and sync runs against one store
InitFrame ==
    \E sms \in SUBSET {sm \in SeedSkuMaster : sm.id = 21} :
        InitTables(SeedProducts, {m \in SeedMappings : m.id = 11}, sms)

\* a record that names a stored product and carries another source, and one
\* that names a new product
FrameRecords ==
    {[name |-> Some(T("a")), category |-> Some(cat2), source |-> Some(amazon),
      base_cost |-> Some(5)],
     [name |-> Some(T("c"))]}

NextFrame ==
    \/ \E ps \in SeqUpTo(FrameRecords, BATCH_SIZE) : ImportRequest(ps)
    \/ ImportChunk
    \/ ImportChunkFail
    \/ ImportRespond
    \/ \E skus \in SeqUpTo(ReingestRecords, MaxSkus) : IngestRequest(skus)
    \/ IngestEntry
    \/ IngestFail
    \/ IngestRespond
    \/ SyncPhaseA
    \/ SyncPhaseB
    \/ SyncStats
    \/ SyncFail

SpecFrame == InitFrame /\ [][NextFrame]_vars

\* two bulk imports running at the same time
InitConcurrentImport ==
    \E ps \in SUBSET {p \in SeedProducts : p.id = 1} : InitTables(ps, {}, {})

\* the records of the two requests: both name a, b and c, and only the first
\* request sets fallback columns of a
ConcurrentRecords ==
    {p \in ImportRecords :
        /\ OrNull(p, "name") \in {Some(T("a")), Some(T("b")), Some(T("c"))}
        /\ "weight" \notin DOMAIN p
        /\ DOMAIN p # {"name"} \/ p.name # Some(T("a"))}

PeerRecords ==
    {p \in ImportRecords :
        /\ OrNull(p, "name") \in {Some(T("a")), Some(T("b")), Some(T("c"))}
        /\ "parent" \notin DOMAIN p}

NextConcurrentImport ==
    \/ \E ps \in SeqUpTo(ConcurrentRecords, MaxBatch) : ImportRequest(ps)
    \/ ImportChunk
    \/ ImportChunkFail
    \/ ImportRespond
    \/ \E ps \in SeqUpTo(PeerRecords, MaxBatch) : PeerImportRequest(ps)
    \/ PeerImportChunk
    \/ PeerImportChunkFail
    \/ PeerImportRespond

SpecConcurrentImport == InitConcurrentImport /\ [][NextConcurrentImport]_vars

\* channel sync runs and a SKU-mapping bulk create against the seed products
InitSync ==
    \E ms \in SUBSET SeedMappings : \E sms \in SUBSET SeedSkuMaster :
        \* the two seed mappings without a usable sku come together
        /\ (\E m \in ms : m.id = 14) <=> (\E m \in ms : m.id = 15)
        /\ InitTables(SeedProducts, ms, sms)

NextSync ==
    \/ \E ms \in SeqUpTo(MappingRecords, MaxMappings) : SkuBulk(ms)
    \/ SyncPhaseA
    \/ SyncPhaseB
    \/ SyncStats
    \/ SyncFail

SpecSync == InitSync /\ [][NextSync]_vars

\* the ingester and channel sync runs against the seed products
InitIngest ==
    \E ms \in SUBSET {m \in SeedMappings : m.id \in {11, 12}} :
        \E sms \in SUBSET SeedSkuMaster : InitTables(SeedProducts, ms, sms)

NextIngest ==
    \/ \E skus \in SeqUpTo(IngestRecords, MaxSkus) : IngestRequest(skus)
    \/ IngestEntry
    \/ IngestFail
    \/ IngestRespond
    \/ SyncPhaseA
    \/ SyncPhaseB
    \/ SyncStats
    \/ SyncFail

SpecIngest == InitIngest /\ [][NextIngest]_vars

\* missing-reference requests one after another, interleaved with sync runs
InitReingest ==
    \E ms \in SUBSET {m \in SeedMappings : m.id = 11} : InitTables(SeedProducts, ms, {})

NextReingest ==
    \/ \E skus \in SeqUpTo(ReingestRecords, MaxSkus) : IngestRequest(skus)
    \/ IngestAgain
    \/ IngestEntry
    \/ IngestFail
    \/ IngestRespond
    \/ SyncPhaseA
    \/ SyncPhaseB
    \/ SyncStats
    \/ SyncFail

SpecReingest == InitReingest /\ [][NextReingest]_vars

\* the two handlers that validate record by record
InitValidate ==
    \E ms \in SUBSET {m \in SeedMappings : m.id = 11} :
        \E sms \in {{}, SeedSkuMaster} : InitTables(SeedProducts, ms, sms)

NextValidate ==
    \/ \E skus \in SeqUpTo(IngestRecords, MaxSkus) : IngestRequest(skus)
    \/ IngestEntry
    \/ IngestFail
    \/ IngestRespond
    \/ \E ms \in SeqUpTo(MappingRecords, MaxMappings) : SkuBulk(ms)

SpecValidate == InitValidate /\ [][NextValidate]_vars

\* ingestions, sync runs and deletions, starting with an empty sku_master
InitProvenance ==
    \E ms \in SUBSET {m \in SeedMappings : m.id \in {11, 13}} :
        InitTables(SeedProducts, ms, {})

NextProvenance ==
    \/ \E skus \in SeqUpTo(ReingestRecords, MaxSkus) : IngestRequest(skus)
    \/ IngestEntry
    \/ IngestFail
    \/ IngestRespond
    \/ SyncPhaseA
    \/ SyncPhaseB
    \/ SyncStats
    \/ SyncFail
    \/ \E id \in {m.id : m \in SeedMappings} : DeleteMapping(id)
    \/ \E id \in {p.id : p \in SeedProducts} \cup {nextId} : DeleteProduct(id)

SpecProvenance == InitProvenance /\ [][NextProvenance]_vars

\* two sync requests running at the same time
NextConcurrent ==
    \/ SyncPhaseA
    \/ SyncPhaseB
    \/ SyncStats
    \/ PeerPhaseA
    \/ PeerPhaseB
    \/ PeerStats

SpecConcurrent == InitSync /\ [][NextConcurrent]_vars

\* every handler against every seed store
Init == InitImport \/ InitSync

Next ==
    \/ NextImport
    \/ NextFrame
    \/ NextRetry
    \/ NextConcurrentImport
    \/ NextSync
    \/ NextChannel
    \/ NextIngest
    \/ NextReingest
    \/ NextValidate
    \/ NextProvenance
    \/ NextConcurrent

Spec == Init /\ [][Next]_vars

----------------------------------------------------------------------------
(* Properties of the deduplication step *)

\* positions of the request list whose record has canonical key key
Occurrences(body, key) == {k \in 1..Len(body) : CanonKey(body[k]) = key}

Last(S) == CHOOSE k \in S : \A l \in S : l <= k

NonEmptyKeys(body) == {CanonKey(body[k]) : k \in 1..Len(body)} \ {<<>>}

\* C1: for every canonical key that occurs in the request list, exactly one
\* record with that key is passed on to the upsert, and it is the record
\* that occurs last in input order.
C1_LastOccurrenceWins ==
    imp.pc # "idle" =>
        \A key \in NonEmptyKeys(imp.body) :
            /\ Cardinality(Occurrences(imp.uniqueProducts, key)) = 1
            /\ \A k \in Occurrences(imp.uniqueProducts, key) :
                  imp.uniqueProducts[k] = imp.body[Last(Occurrences(imp.body, key))]

\* a request in which one key occurs twice, with different records
C1_Witness ==
    /\ imp.pc # "idle"
    /\ \E key \in NonEmptyKeys(imp.body) :
          \E k, l \in Occurrences(imp.body, key) :
              /\ k < l
              /\ imp.body[k] # imp.body[l]
              /\ l = Last(Occurrences(imp.body, key))
              /\ \E u \in 1..Len(imp.uniqueProducts) : imp.uniqueProducts[u] = imp.body[l]

\* C2: deduplication is idempotent: applied to its own output it returns
\* that output.
C2_DedupIdempotent ==
    imp.pc # "idle" => Dedup(imp.uniqueProducts) = imp.uniqueProducts

\* a request the deduplication shortened to two or more records
C2_Witness ==
    /\ imp.pc # "idle"
    /\ Len(imp.uniqueProducts) >= 2
    /\ Len(imp.uniqueProducts) < Len(imp.body)

----------------------------------------------------------------------------
(* Properties of the chunk upsert *)

FallbackFields ==
    {"base_cost", "size", "weight", "width", "height", "length", "product_sku", "parent"}

\* the authoritative field of a product
AuthoritativeFields == {"category"}

ProductFields == FallbackFields \cup AuthoritativeFields \cup {"name", "source"}

\* a step of the chunk loop whose statement was applied
ChunkApplied == imp.pc = "loop" /\ imp'.pc = "loop" /\ imp'.i = imp.i + BATCH_SIZE

\* the records of the chunk that step applies
ChunkOf == Slice(imp.uniqueProducts, imp.i)

\* C3: after the upsert each fallback field of a stored product equals the
\* stored value when the incoming record's value is null or absent, and the
\* incoming value otherwise.
C3_FallbackMerge ==
    [][ChunkApplied =>
         \A k \in 1..Len(ChunkOf) : \A old \in products :
             old.name = ChunkOf[k].name =>
                 \E new \in products' :
                     /\ new.id = old.id
                     /\ \A f \in FallbackFields :
                            new[f] = IF f \in DOMAIN ChunkOf[k] /\ ChunkOf[k][f] # NULL
                                     THEN ChunkOf[k][f] ELSE old[f]]_vars

\* the records of the request the loop has applied so far
AppliedSoFar == SubSeq(imp.uniqueProducts, 1, Min(imp.i, Len(imp.uniqueProducts)))

\* an applied record met a stored product and kept one of its fallback
\* values (absent field), kept another (null field) and replaced a third
C3_Witness ==
    /\ imp.pc \in {"loop", "done"}
    /\ \E k \in 1..Len(AppliedSoFar) : \E old \in hist.p0 : \E new \in products :
          LET I == AppliedSoFar[k] IN
          /\ old.name = I.name
          /\ new.id = old.id
          /\ "weight" \notin DOMAIN I /\ old.weight # NULL /\ new.weight = old.weight
          /\ "size" \in DOMAIN I /\ I.size = NULL /\ old.size # NULL /\ new.size = old.size
          /\ "base_cost" \in DOMAIN I /\ I.base_cost # NULL
          /\ old.base_cost # I.base_cost /\ new.base_cost = I.base_cost

\* C4: a stored non-null value of a product is replaced by null only if the
\* field is authoritative and the incoming record explicitly contained it.
C4_NoSilentDrop ==
    [][ChunkApplied =>
         \A k \in 1..Len(ChunkOf) : \A old \in products : \A new \in products' :
             (old.name = ChunkOf[k].name /\ new.id = old.id) =>
                 \A f \in ProductFields :
                     (old[f] # NULL /\ new[f] = NULL) =>
                         (f \in AuthoritativeFields /\ f \in DOMAIN ChunkOf[k])]_vars

\* C5: when the upsert of a chunk fails, every row of the earlier chunks is
\* in the store as applied, and the rows of the failed chunk and of every
\* later chunk are as they were before the request.
C5_ChunkAtomic ==
    (imp.pc = "done" /\ imp.res.status = 500) =>
        /\ \A k \in 1..Len(AppliedSoFar) :
              \E r \in products :
                  /\ r.name = AppliedSoFar[k].name
                  /\ r.category = OrNull(AppliedSoFar[k], "category")
                  /\ \A f \in FallbackFields :
                        OrNull(AppliedSoFar[k], f) # NULL => r[f] = AppliedSoFar[k][f]
        /\ \A k \in (Len(AppliedSoFar) + 1)..Len(imp.uniqueProducts) :
              {r \in products : r.name = imp.uniqueProducts[k].name}
                  = {r \in hist.p0 : r.name = imp.uniqueProducts[k].name}

\* the second chunk failed after the first had inserted one row and changed
\* another, and the failed chunk's record would have changed a stored row
C5_Witness ==
    /\ imp.pc = "done" /\ imp.res.status = 500
    /\ Len(AppliedSoFar) = BATCH_SIZE
    /\ Len(imp.uniqueProducts) > BATCH_SIZE
    /\ products # hist.p0
    /\ \E k \in (Len(AppliedSoFar) + 1)..Len(imp.uniqueProducts) :
          \E r \in products :
              /\ r.name = imp.uniqueProducts[k].name
              /\ r.category # OrNull(imp.uniqueProducts[k], "category")

\* C6 as stated: when a chunk fails after earlier chunks were committed, the
\* response carries the created/updated counts of the rows processed so far
\* together with the error indicator.
C6_PartialCountsReported ==
    (imp.pc = "done" /\ imp.res.status = 500 /\ imp.i > 0) =>
        /\ "data" \in DOMAIN imp.res
        /\ imp.res.data.added = imp.totalAdded
        /\ imp.res.data.updated = imp.totalUpdated

\* C6 amended: when a chunk fails, the response carries only the error
\* indicator (success = false and the error message) and no counts, while
\* the rows the earlier chunks processed stay committed.
C6_ErrorOnly ==
    (imp.pc = "done" /\ imp.res.status = 500) =>
        /\ DOMAIN imp.res = {"status", "success", "error"}
        /\ imp.res.success = FALSE
        /\ imp.totalAdded + imp.totalUpdated = Len(AppliedSoFar)
        /\ Cardinality(products) = Cardinality(hist.p0) + imp.totalAdded

\* a chunk failed after an earlier chunk had added and updated rows
C6_Witness ==
    /\ imp.pc = "done" /\ imp.res.status = 500
    /\ imp.totalAdded > 0
    /\ imp.totalUpdated > 0

\* C7: when every chunk succeeds, added + updated is the number of distinct
\* non-empty canonical keys of the request, and no record with a missing or
\* blank name is written.
C7_CountConservation ==
    (imp.pc = "done" /\ imp.res.status = 201) =>
        /\ imp.res.data.added + imp.res.data.updated
              = Cardinality(NonEmptyKeys(imp.body))
        /\ Cardinality(products) = Cardinality(hist.p0) + imp.res.data.added
        /\ \A r \in products \ hist.p0 : trim(r.name[1]) # <<>>

\* a successful request with a repeated key and a blank name that wrote a row
C7_Witness ==
    /\ imp.pc = "done" /\ imp.res.status = 201
    /\ imp.res.data.added + imp.res.data.updated > 0
    /\ \E k \in 1..Len(imp.body) : CanonKey(imp.body[k]) = <<>>
    /\ Cardinality(NonEmptyKeys(imp.body)) < Len(imp.body) - 1

\* C8: a record is counted as added if and only if no product with its name
\* was in the store immediately before its chunk's upsert, and as updated
\* otherwise.
C8_InsertVsUpdate ==
    [][ChunkApplied =>
         /\ Len(imp'.result) = Len(ChunkOf)
         /\ \A k \in 1..Len(ChunkOf) :
               imp'.result[k].is_insert = ~ \E r \in products : r.name = ChunkOf[k].name
         /\ imp'.totalAdded - imp.totalAdded
               = Cardinality({k \in 1..Len(ChunkOf) :
                                 ~ \E r \in products : r.name = ChunkOf[k].name})
         /\ imp'.totalUpdated - imp.totalUpdated
               = Cardinality({k \in 1..Len(ChunkOf) :
                                 \E r \in products : r.name = ChunkOf[k].name})]_vars

\* a chunk's result classified one record as inserted and one as updated
C8_Witness ==
    /\ imp.pc = "loop"
    /\ imp.i > 0
    /\ \E k, l \in 1..Len(imp.result) :
          imp.result[k].is_insert /\ ~ imp.result[l].is_insert

----------------------------------------------------------------------------
(* Properties of the channel sync *)

SyncCompleted == sync.pc = "done" /\ sync.res.status = 200

\* the derived columns Phase A writes
DerivedOf(pr) ==
    [name |-> pr[2].name,
     parent |-> IF pr[2].parent # NULL THEN pr[2].parent ELSE pr[2].product_sku,
     category |-> pr[2].category,
     cost |-> pr[2].base_cost,
     size |-> pr[2].size,
     custom_shipping |-> pr[2].default_custom_shipping,
     fbm_source |-> pr[2].default_fbm_source]

HasDerived(sm, pr) ==
    \A f \in DOMAIN DerivedOf(pr) : sm[f] = DerivedOf(pr)[f]

\* C9 as stated: a sync run that follows a completed run with no write in
\* between reports inserted = 0 and leaves every sku_master column as the
\* earlier run left it, also when several mappings share a sku and country.
C9_SyncIdempotent ==
    (SyncCompleted /\ hist.before # NULL) =>
        /\ sync.res.data.inserted = 0
        /\ sku_master = hist.before[1]

CreatedBySync == {sm \in sku_master : sm.id \notin {old.id : old \in hist.sm0}}

HasSku(m) == m.sku # NULL /\ m.sku # Some(<<>>)

\* C11: after a sync run without concurrent writes, every mapping+product
\* pair with a non-null, non-empty sku has a sku_master row with key
\* (sku, 'amazon', country_code), and no row was created for a mapping whose
\* sku is null or empty.
C11_PhaseBComplete ==
    (SyncCompleted /\ hist.clean) =>
        /\ \A pr \in Join(mpd, products) :
              HasSku(pr[1]) =>
                  \E sm \in sku_master :
                      KeyOf(sm) = <<pr[1].sku, Some(amazon), pr[1].country_code>>
        /\ \A sm \in CreatedBySync : HasSku(sm)

\* a completed run created a row while the store held a mapping with an
\* empty sku and one with a null sku
C11_Witness ==
    /\ SyncCompleted /\ hist.clean
    /\ CreatedBySync # {}
    /\ \E pr \in Join(mpd, products) : pr[1].sku = Some(<<>>)
    /\ \E pr \in Join(mpd, products) : pr[1].sku = NULL

\* the rows Phase A of the last run refreshed: those that joined a pair
RefreshedByPhaseA == {sm \in hist.sm0 : Matches(sm, mpd, products) # {}}

\* C12 as stated: the `updated` value a sync run reports equals the number
\* of sku_master rows Phase A of that run refreshed.
C12_UpdatedCount ==
    (SyncCompleted /\ hist.clean) =>
        sync.res.data.updated = Cardinality(RefreshedByPhaseA)

\* C13: for a sync run without concurrent writes, inserted is the number of
\* rows that exist after the run and did not before, total is the number of
\* 'amazon' rows after the run and equals the total before plus inserted,
\* and withCost and withSize do not exceed total.
C13_ReportConsistent ==
    (SyncCompleted /\ hist.clean) =>
        LET d == sync.res.data
            AmazonRows(sms) == {sm \in sms : sm.marketplace = Some(amazon)}
        IN /\ d.inserted = Cardinality(CreatedBySync)
           /\ d.total = Cardinality(AmazonRows(sku_master))
           /\ d.total = Cardinality(AmazonRows(hist.sm0)) + d.inserted
           /\ d.withCost <= d.total
           /\ d.withSize <= d.total

\* a completed run found rows, created fewer rows than it had candidate
\* pairs, and reports rows with and without cost
C13_Witness ==
    /\ SyncCompleted /\ hist.clean
    /\ hist.sm0 # {}
    /\ sync.res.data.inserted > 0
    /\ sync.res.data.inserted < Cardinality(Candidates(mpd, products))
    /\ 0 < sync.res.data.withCost
    /\ sync.res.data.withCost < sync.res.data.total

----------------------------------------------------------------------------
(* Properties of the missing-reference ingester *)

IngestCompleted == ing.pc = "done" /\ ing.res.status = 200

\* the key an entry with sku and marketplace proposes
EntryKey(skuInfo) == <<skuInfo.sku, Some(amazon), skuInfo.marketplace>>

ValidEntries(body) == {i \in 1..Len(body) : ~ EntryInvalid(body[i])}

\* C14: while a missing-reference request runs, added + skipped is the number
\* of entries handled and added is the number of rows the request inserted,
\* so that a repeated entry is added at most once; the successful response
\* carries added + skipped = total = the number of entries.
C14_IngestAccounting ==
    /\ ing.pc = "loop" =>
          /\ ing.added + ing.skipped = ing.k
          /\ ing.added = Cardinality(hist.ingested)
    /\ IngestCompleted =>
          LET d == ing.res.data
          IN /\ d.added + d.skipped = d.total
             /\ d.total = Len(ing.body)
             /\ d.added = Cardinality(hist.ingested)
             /\ d.added <= Cardinality({EntryKey(ing.body[i]) : i \in ValidEntries(ing.body)})
             /\ \A sm \in hist.ingested :
                   \E i \in ValidEntries(ing.body) : KeyOf(sm) = EntryKey(ing.body[i])

\* a request that held the same new key twice was answered added = 1,
\* skipped = 1
C14_Witness ==
    /\ IngestCompleted
    /\ Len(ing.body) = 2
    /\ ValidEntries(ing.body) = {1, 2}
    /\ EntryKey(ing.body[1]) = EntryKey(ing.body[2])
    /\ ing.res.data.added = 1
    /\ ing.res.data.skipped = 1

\* C15: no step of the missing-reference handler changes or removes a row
\* that sku_master already holds, whatever asin, name, category or
\* fulfillment the entry carries.
C15_IngesterNeverUpdates ==
    [][ing' # ing => \A sm \in sku_master : sm \in sku_master']_vars

\* the handler has just skipped an entry whose key a row held before the
\* request, the entry carrying another name, category, asin and fulfillment
C15_Witness ==
    /\ ing.pc = "loop"
    /\ ing.k > 0
    /\ ~ EntryInvalid(ing.body[ing.k])
    /\ \E sm \in sku_master :
          LET row == PlaceholderRow(ing.body[ing.k], sm.id)
          IN /\ KeyOf(sm) = KeyOf(row)
             /\ sm \in SeedSkuMaster
             /\ sm.name # row.name
             /\ sm.category # row.category
             /\ sm.asin # row.asin
             /\ sm.fulfillment # row.fulfillment

\* C18: a sku_master row whose (sku, country_code) matches no mapping+product
\* pair is left as it is by every step of a sync run and of an ingestion.
C18_PlaceholderStable ==
    [][\A sm \in sku_master :
          Matches(sm, mpd, products) = {} => sm \in sku_master']_vars

\* a completed sync run refreshed a matched row and left the unmatched
\* placeholder as it was, and an ingestion skipped an entry with its key
C18_Witness ==
    /\ SyncCompleted
    /\ IngestCompleted
    /\ ing.res.data.skipped > 0
    /\ \E sm \in sku_master \cap SeedSkuMaster :
          /\ Matches(sm, mpd, products) = {}
          /\ \E i \in ValidEntries(ing.body) : EntryKey(ing.body[i]) = KeyOf(sm)
    /\ \E sm \in sku_master : \E old \in SeedSkuMaster :
          sm.id = old.id /\ sm # old

RECURSIVE SumOf(_)
SumOf(ns) == IF ns = <<>> THEN 0 ELSE Head(ns) + SumOf(Tail(ns))

\* every missing-reference request so far was answered with its counts
AllCallsAnswered ==
    /\ ing.pc = "done"
    /\ \A i \in 1..Len(hist.calls) : hist.calls[i].res.status = 200

AddedAcrossCalls == SumOf([i \in 1..Len(hist.calls) |-> hist.calls[i].res.data.added])

SkippedAcrossCalls == SumOf([i \in 1..Len(hist.calls) |-> hist.calls[i].res.data.skipped])

KeysAcrossCalls ==
    UNION {{EntryKey(hist.calls[i].body[j]) : j \in ValidEntries(hist.calls[i].body)} :
              i \in 1..Len(hist.calls)}

\* C16: whatever the interleaving of missing-reference requests and sync
\* runs, no two rows of sku_master share (sku, marketplace, country_code);
\* over the answered requests each key sent has one row, added counts the
\* rows the requests created, at most one per key, and every other entry is
\* counted as skipped.
C16_KeyUnique ==
    /\ \A a, b \in sku_master : KeyOf(a) = KeyOf(b) => a = b
    /\ AllCallsAnswered =>
          /\ \A key \in KeysAcrossCalls :
                Cardinality({sm \in sku_master : KeyOf(sm) = key}) = 1
          /\ AddedAcrossCalls = Cardinality(hist.ingested)
          /\ AddedAcrossCalls <= Cardinality(KeysAcrossCalls)
          /\ AddedAcrossCalls + SkippedAcrossCalls
                = SumOf([i \in 1..Len(hist.calls) |-> Len(hist.calls[i].body)])

\* the same one-entry request was served twice around a sync run: added = 1
\* and skipped = 1 across the two answers, and one row holds the key
C16_Witness ==
    /\ AllCallsAnswered
    /\ SyncCompleted
    /\ Len(hist.calls) = 2
    /\ hist.calls[1].body = hist.calls[2].body
    /\ Len(hist.calls[1].body) = 1
    /\ hist.calls[1].res.data = [added |-> 1, skipped |-> 0, total |-> 1]
    /\ hist.calls[2].res.data = [added |-> 0, skipped |-> 1, total |-> 1]
    /\ Cardinality({sm \in sku_master : KeyOf(sm) = EntryKey(hist.calls[1].body[1])}) = 1

----------------------------------------------------------------------------
(* Properties of per-record validation *)

BulkCompleted == bulk.pc = "done" /\ bulk.res.status = 200

\* the mappings a bulk request created
NewMappings == {r \in mpd : r.id \notin {m.id : m \in SeedMappings}}

\* the mappings of a request the statement can store
Storable(body) ==
    {i \in 1..Len(body) : ~ MissingRequired(body[i]) /\ ForeignKeysHold(products, body[i])}

\* C17: an entry without sku or marketplace, and a mapping without
\* product_id, marketplace_id, country_code or sku, writes nothing and stops
\* no other record of its request: every valid entry handled so far has its
\* row, only valid records produced rows, and the bulk answer carries
\* created + updated + number of errors = number of mappings.
C17_PerRecordValidation ==
    /\ ing.pc = "loop" \/ IngestCompleted =>
          /\ \A i \in ValidEntries(ing.body) :
                i <= ing.k => \E sm \in sku_master : KeyOf(sm) = EntryKey(ing.body[i])
          /\ \A sm \in sku_master \ SeedSkuMaster :
                \E i \in ValidEntries(ing.body) : KeyOf(sm) = EntryKey(ing.body[i])
          /\ ing.skipped >= Cardinality({i \in 1..ing.k : EntryInvalid(ing.body[i])})
    /\ IngestCompleted => ing.k = Len(ing.body)
    /\ BulkCompleted =>
          /\ bulk.res.created + bulk.res.updated + Len(bulk.res.errors) = Len(bulk.body)
          /\ \A i \in Storable(bulk.body) : \E r \in mpd : SameMapping(r, bulk.body[i])
          /\ \A r \in NewMappings :
                \E i \in Storable(bulk.body) : SameMapping(r, bulk.body[i])
          /\ bulk.res.created = Cardinality(NewMappings)
          /\ Len(bulk.res.errors) >=
                Cardinality({i \in 1..Len(bulk.body) : MissingRequired(bulk.body[i])})

\* both handlers met an invalid record first and stored the valid record
\* that followed it
C17_Witness ==
    /\ IngestCompleted
    /\ Len(ing.body) = 2
    /\ EntryInvalid(ing.body[1])
    /\ ing.res.data = [added |-> 1, skipped |-> 1, total |-> 2]
    /\ BulkCompleted
    /\ Len(bulk.body) = 2
    /\ MissingRequired(bulk.body[1])
    /\ bulk.res.created = 1
    /\ Len(bulk.res.errors) = 1

----------------------------------------------------------------------------
(* Properties of sku_master as a whole *)

\* C19 as stated: in every reachable state every sku_master row either
\* matches an existing mapping+product pair or was created by the
\* missing-reference ingester.
C19_RowProvenance ==
    \A sm \in sku_master :
        \/ Matches(sm, mpd, products) # {}
        \/ sm.id \in {row.id : row \in hist.ingested}

RowsFor(sms, pr) == {sm \in sms : KeyOf(sm) = KeyOf(SyncRow(pr, 0))}

\* C20: with two sync requests in flight at once, every Phase B step only
\* adds rows and counts exactly the rows it added, every run is answered
\* with status 200 and that count, and once a Phase B has run each mapping
\* with a sku has exactly one row.
C20_ConcurrentSyncsAbsorbed ==
    [][/\ \A run \in {<<sync, sync'>>, <<peer, peer'>>} :
            /\ (run[1].pc = "phaseB" /\ run[2].pc = "stats") =>
                  /\ sku_master \subseteq sku_master'
                  /\ run[2].inserted = Cardinality(sku_master' \ sku_master)
            /\ (run[1].pc = "stats" /\ run[2].pc = "done") =>
                  /\ run[2].res.status = 200
                  /\ run[2].res.data.inserted = run[1].inserted
                  /\ sku_master' = sku_master
       /\ (sync'.pc \in {"stats", "done"} \/ peer'.pc \in {"stats", "done"}) =>
            \A pr \in Candidates(mpd', products') :
                Cardinality(RowsFor(sku_master', pr)) = 1]_vars

\* both requests are in flight past their Phase B: one created the missing
\* rows, the other proposed the same rows and created none
C20_Witness ==
    /\ sync.pc = "stats" /\ sync.runs = 1
    /\ peer.pc = "stats" /\ peer.runs = 1
    /\ sync.inserted = 0
    /\ peer.inserted > 1
    /\ Cardinality(Candidates(mpd, products)) > peer.inserted

----------------------------------------------------------------------------
(* Further properties of the channel sync *)

SameIds(sms, tms) == {sm.id : sm \in sms} = {sm.id : sm \in tms}

\* C21: within a sync run the refresh comes first, the backfill second and
\* the statistics query third: sku_master rows are refreshed only by the step
\* that opens a run, rows are created only by the step that follows a
\* completed refresh, only that step leads to the statistics query, and a
\* run whose first statement fails changes nothing and ends.
C21_PhaseOrdering ==
    [][/\ (sku_master' # sku_master /\ SameIds(sku_master, sku_master')) =>
             (sync.pc \in {"idle", "done"} /\ sync'.pc = "phaseB")
       /\ ~ SameIds(sku_master, sku_master') =>
             (sync.pc = "phaseB" /\ sync'.pc = "stats")
       /\ (sync'.pc = "stats" /\ sync.pc # "stats") => sync.pc = "phaseB"
       /\ (sync'.pc = "phaseB" /\ sync.pc # "phaseB") => sync.pc \in {"idle", "done"}
       /\ (sync' # sync /\ sync'.pc = "done" /\ sync'.res.status = 200) =>
             sync.pc = "stats"
       /\ (sync' # sync /\ sync'.pc = "done" /\ sync'.res.status = 500) =>
             sku_master' = sku_master]_vars

\* a completed run refreshed a row in its first statement and created
\* another in its second
C21_Witness ==
    /\ SyncCompleted /\ hist.clean
    /\ sync.res.data.inserted > 0
    /\ \E sm \in sku_master : \E old \in hist.sm0 : sm.id = old.id /\ sm # old

\* C23 as stated: after a sync run, every sku_master row that corresponds to
\* a mapping+product pair has the fulfillment of such a mapping.
C23_FulfillmentMirrored ==
    (SyncCompleted /\ hist.clean) =>
        \A sm \in sku_master :
            Matches(sm, mpd, products) # {} =>
                \E pr \in Matches(sm, mpd, products) :
                    sm.fulfillment = pr[1].fulfillment_type

\* C27: whatever ingestions, deletions and sync runs came before, a sync run
\* that starts after the last of those writes and completes leaves every
\* sku_master row that matches a mapping+product pair with the derived
\* columns of such a pair, and every pair with a non-empty sku with a row.
C27_EventuallyConsistent ==
    (SyncCompleted /\ hist.clean) =>
        /\ \A sm \in sku_master :
              \A pr \in Matches(sm, mpd, products) :
                  \E qr \in Matches(sm, mpd, products) : HasDerived(sm, qr)
        /\ \A pr \in Join(mpd, products) :
              HasSku(pr[1]) => RowsFor(sku_master, pr) # {}

\* a placeholder was inserted between the two statements of a sync run,
\* where its key shut out the backfill, and the next run refreshed it
C27_Witness ==
    /\ SyncCompleted /\ hist.clean
    /\ hist.raced
    /\ sync.runs = 2
    /\ \E sm \in sku_master : \E old \in hist.ingested :
          /\ sm.id = old.id
          /\ sm # old
          /\ \E pr \in Matches(sm, mpd, products) : HasDerived(sm, pr)

\* the Amazon mappings a row shares sku and country_code with
AmazonMatches(sm) ==
    {pr \in Matches(sm, mpd, products) : pr[1].marketplace_id = Some(AMZ)}

\* C25 as stated: a sync step creates or overwrites an 'amazon' sku_master
\* row only from a mapping of the Amazon marketplace.
C25_ChannelScoped ==
    [][\A sm \in sku_master' \ sku_master : AmazonMatches(sm) # {}]_vars

----------------------------------------------------------------------------
(* Further properties of the bulk product import *)

\* the canonical key of a stored name
StoredKey(r) == trim(toLowerCase(r.name[1]))

\* C24 as stated: the products table never holds two rows whose names
\* differ only by letter case or surrounding whitespace.
C24_CanonicalStoreMatch ==
    \A a, b \in products : StoredKey(a) = StoredKey(b) => a = b

\* C22: when a bulk import that was answered with success is sent again
\* with no other write in between, the store stays, through every chunk of
\* the second import, as the first import left it, and the second import
\* reports added = 0.
C22_RetryIdempotent ==
    hist.p1 # NULL =>
        /\ products = hist.p1[1]
        /\ imp.totalAdded = 0
        /\ (imp.pc = "done" /\ imp.res.status \in {200, 201}) =>
              /\ imp.res.data.added = 0
              /\ imp.res.data.updated = Len(imp.uniqueProducts)

\* the first import added a product and merged into a stored one, in two
\* chunks, and the second import was answered
C22_Witness ==
    /\ hist.p1 # NULL
    /\ imp.pc = "done"
    /\ imp.res.status = 201
    /\ Len(imp.uniqueProducts) > BATCH_SIZE
    /\ \E r \in products : r \notin SeedProducts /\ r.id \in {q.id : q \in SeedProducts}
    /\ \E r \in products : r.id \notin {q.id : q \in SeedProducts}

\* C26: no two records of the deduplicated list, hence of a chunk, carry the
\* same name, every record carries a name, so that the statement of every
\* chunk is one the store accepts; a name the store holds is then updated.
C26_NoConflictError ==
    imp.pc = "loop" =>
        /\ \A k, l \in 1..Len(imp.uniqueProducts) :
              OrNull(imp.uniqueProducts[k], "name") = OrNull(imp.uniqueProducts[l], "name")
                  => k = l
        /\ \A k \in 1..Len(imp.uniqueProducts) : Truthy(imp.uniqueProducts[k], "name")
        /\ imp.i < Len(imp.uniqueProducts) =>
              StatementValid(Slice(imp.uniqueProducts, imp.i))

\* the request repeated a name, one record of that name went to the store,
\* and the store, which held the name, updated its row
C26_Witness ==
    /\ imp.pc = "loop"
    /\ imp.i > 0
    /\ \E k, l \in 1..Len(imp.body) :
          /\ k < l
          /\ Truthy(imp.body[k], "name")
          /\ OrNull(imp.body[k], "name") = OrNull(imp.body[l], "name")
          /\ \E r \in hist.p0 : r.name = imp.body[k].name
    /\ imp.totalUpdated > 0

BothImportsAnswered ==
    /\ imp.pc = "done" /\ imp.res.status = 201
    /\ imp2.pc = "done" /\ imp2.res.status = 201

SeedIds == {q.id : q \in SeedProducts}

\* the row two upserts leave, the first meeting the row r0 or no row
Upserted(r0, id, first, second) ==
    ConflictUpdate(IF r0 = NULL THEN InsertRow(first, id) ELSE ConflictUpdate(r0[1], first),
                   second)

\* C28: when two bulk imports that ran at the same time have both been
\* answered, a name both of them carried is stored as the two upserts
\* applied one after the other, in one order or the other, leave it; a
\* fallback column either record set is not null; and the two added counts
\* together count every created product once.
C28_NoLostUpdate ==
    BothImportsAnswered =>
        /\ \A k \in 1..Len(imp.uniqueProducts) : \A l \in 1..Len(imp2.uniqueProducts) :
              LET e1 == ExcludedRow(imp.uniqueProducts[k])
                  e2 == ExcludedRow(imp2.uniqueProducts[l])
              IN e1.name = e2.name =>
                   \E r \in products :
                       LET r0 == IF r.id \in SeedIds
                                 THEN Some(CHOOSE q \in SeedProducts : q.id = r.id)
                                 ELSE NULL
                       IN /\ r.name = e1.name
                          /\ r \in {Upserted(r0, r.id, e1, e2), Upserted(r0, r.id, e2, e1)}
                          /\ \A f \in FallbackFields :
                                (e1[f] # NULL \/ e2[f] # NULL) => r[f] # NULL
        /\ imp.res.data.added + imp2.res.data.added
              = Cardinality({r \in products : r.id \notin SeedIds})
        /\ \A a, b \in products : a.name = b.name => a = b

\* both imports carried one new name, the first setting fallback columns
\* the second left out; their chunks alternated, one import counted the
\* name as added and the other as updated
C28_Witness ==
    /\ BothImportsAnswered
    /\ Len(imp.uniqueProducts) > BATCH_SIZE
    /\ Len(imp2.uniqueProducts) > BATCH_SIZE
    /\ \E k \in 1..Len(imp.uniqueProducts) : \E l \in 1..Len(imp2.uniqueProducts) :
          LET e1 == ExcludedRow(imp.uniqueProducts[k])
              e2 == ExcludedRow(imp2.uniqueProducts[l])
          IN /\ e1.name = e2.name
             /\ e1.base_cost # NULL
             /\ e2.base_cost = NULL
             /\ \E r \in products :
                   r.name = e1.name /\ r.id \notin SeedIds /\ r.base_cost = e1.base_cost
    /\ imp.res.data.added > 0
    /\ imp2.res.data.added > 0

\* C29: the chunks are the consecutive slices of at most BATCH_SIZE records
\* of the deduplicated list, in list order: each chunk step starts where the
\* last one ended, returns one row per record of its slice and stores those
\* records; a chunk is submitted only while every earlier one has succeeded,
\* and the success response follows the last chunk.
C29_ChunkOrder ==
    [][/\ imp'.i # imp.i =>
             /\ imp.pc = "loop" /\ imp'.pc = "loop"
             /\ imp.i % BATCH_SIZE = 0
             /\ imp'.i = imp.i + BATCH_SIZE
             /\ Len(imp'.result) = Min(BATCH_SIZE, Len(imp.uniqueProducts) - imp.i)
             /\ imp'.totalAdded + imp'.totalUpdated = Min(imp'.i, Len(imp.uniqueProducts))
             /\ \A k \in 1..Len(imp.uniqueProducts) :
                   (\E r \in products' \ products : r.name = imp.uniqueProducts[k].name)
                       => (imp.i < k /\ k <= imp'.i)
       /\ (imp.pc = "loop" /\ imp'.pc = "done" /\ imp'.res.status = 201) =>
             /\ imp.i >= Len(imp.uniqueProducts)
             /\ imp.totalAdded + imp.totalUpdated = Len(imp.uniqueProducts)
       /\ (imp.pc = "done") => (products' = products)]_vars

\* a request of more records than one chunk holds was stored in two chunks,
\* the second shorter than the first
C29_Witness ==
    /\ imp.pc = "done"
    /\ imp.res.status = 201
    /\ Len(imp.uniqueProducts) > BATCH_SIZE
    /\ Len(imp.uniqueProducts) % BATCH_SIZE # 0
    /\ Len(imp.result) = Len(imp.uniqueProducts) % BATCH_SIZE

----------------------------------------------------------------------------
(* What each handler leaves alone *)

\* C30: a step of a sync run or of an ingestion changes no row of products
\* or marketplace_product_data and removes no sku_master row; a step of a
\* bulk import changes no row of sku_master or marketplace_product_data, and
\* every product it finds keeps its id, name, source and cost_profile_id.
C30_SourceOfTruthFrame ==
    [][/\ (sync' # sync \/ ing' # ing) =>
             /\ products' = products
             /\ mpd' = mpd
             /\ \A sm \in sku_master : \E tm \in sku_master' : tm.id = sm.id
       /\ imp' # imp =>
             /\ sku_master' = sku_master
             /\ mpd' = mpd
             /\ \A r \in products : \E q \in products' :
                   /\ q.id = r.id
                   /\ q.name = r.name
                   /\ q.source = r.source
                   /\ q.cost_profile_id = r.cost_profile_id]_vars

\* an import updated a stored product from a record that carries another
\* source, a sync run refreshed or created a row, an ingestion added a row
C30_Witness ==
    /\ imp.pc = "done" /\ imp.res.status = 201
    /\ \E k \in 1..Len(imp.uniqueProducts) : \E r \in products :
          /\ r.id \in SeedIds
          /\ r \notin SeedProducts
          /\ r.name = imp.uniqueProducts[k].name
          /\ r.source # ExcludedRow(imp.uniqueProducts[k]).source
    /\ SyncCompleted
    /\ \E sm \in sku_master :
          sm \notin SeedSkuMaster /\ sm.id \notin {row.id : row \in hist.ingested}
    /\ IngestCompleted
    /\ ing.res.data.added > 0

====
